---- MODULE Spec2Model ----
(***************************************************************************)
(* Model of the RavenScans source (src/sources/ravenscans/src/lib.rs).     *)
(*                                                                         *)
(* Strings are sequences of one-character strings, so that prefix tests,   *)
(* substring tests, lower-casing and trimming are computed character by    *)
(* character as the Rust code computes them.  An Option is a sequence of   *)
(* length 0 (None) or 1 (Some(v)).  A document is the sequence, in         *)
(* document order, of the nodes a query can match; each node records the   *)
(* selector alternative it matches (0: none) and the attributes and text   *)
(* the handlers read.                                                      *)
(***************************************************************************)
EXTENDS Integers, Sequences, FiniteSets, TLC

VARIABLES op, arg, url, response, doc, outcome, result

vars == <<op, arg, url, response, doc, outcome, result>>

(* ------------------------------ bounds -------------------------------- *)

\* longest document (number of candidate nodes) the transport returns
MaxNodes == 3

\* most string pieces concatenated into an input of a pure function
MaxPieces == 2

(* ------------------------------ options ------------------------------- *)

None == <<>>

Some(v) == <<v>>

IsSome(o) == Len(o) > 0

\* Option::unwrap_or_default for strings
unwrap_or_default(o) == IF IsSome(o) THEN o[1] ELSE <<>>

(* ------------------------------ strings ------------------------------- *)

RECURSIVE Cat(_)
Cat(ps) == IF ps = <<>> THEN <<>> ELSE Head(ps) \o Cat(Tail(ps))

Tuples(S, n) == UNION {[1..k -> S] : k \in 0..n}

starts_with(s, p) == Len(s) >= Len(p) /\ SubSeq(s, 1, Len(p)) = p

contains(s, p) == \E i \in 1..(Len(s) - Len(p) + 1) : SubSeq(s, i, i + Len(p) - 1) = p

UpperLetters ==
  <<"A", "B", "C", "D", "E", "F", "G", "H", "I", "J", "K", "L", "M",
    "N", "O", "P", "Q", "R", "S", "T", "U", "V", "W", "X", "Y", "Z">>

LowerLetters ==
  <<"a", "b", "c", "d", "e", "f", "g", "h", "i", "j", "k", "l", "m",
    "n", "o", "p", "q", "r", "s", "t", "u", "v", "w", "x", "y", "z">>

LowerChar(c) ==
  IF \E i \in 1..26 : UpperLetters[i] = c
  THEN LowerLetters[CHOOSE i \in 1..26 : UpperLetters[i] = c]
  ELSE c

to_lowercase(s) == [i \in 1..Len(s) |-> LowerChar(s[i])]

IsWhitespace(c) == c \in {" ", "\t", "\n"}

RECURSIVE trim_start(_)
trim_start(s) ==
  IF s # <<>> /\ IsWhitespace(Head(s)) THEN trim_start(Tail(s)) ELSE s

RECURSIVE trim_end(_)
trim_end(s) ==
  IF s # <<>> /\ IsWhitespace(s[Len(s)]) THEN trim_end(SubSeq(s, 1, Len(s) - 1)) ELSE s

trim(s) == trim_end(trim_start(s))

\* fn text(node): node.inner_text().trim().to_string()
text(inner_text) == trim(inner_text)

(* ------------------------------ config -------------------------------- *)

BASE_URL ==
  <<"h", "t", "t", "p", "s", ":", "/", "/", "r", "a", "v", "e", "n", "s",
    "c", "a", "n", "s", ".", "c", "o", "m">>

\* the alternatives of each comma-separated selector list, by position
LIST_ITEM == 1..3

CHAPTER_LIST == 1..4

PAGE_IMAGE == 1..3

\* query_selector with a selector list: every node that matches any
\* alternative of the list, in document order
query_selector(nodes, target) == SelectSeq(nodes, LAMBDA n : n.alt \in target)

(* --------------------------- field helpers ---------------------------- *)

\* fn abs(href)
abs(href) ==
  IF starts_with(href, <<"h", "t", "t", "p">>) THEN href ELSE BASE_URL \o href

\* fn map_status(s)
map_statusCompleteFirst(s) ==
  LET l == to_lowercase(s) IN
  IF contains(l, <<"c", "o", "m", "p", "l", "e", "t", "e">>) THEN "Completed"
  ELSE IF contains(l, <<"o", "n", "g", "o", "i", "n", "g">>) THEN "Ongoing"
  ELSE "Unknown"

map_status(s) ==
  LET l == to_lowercase(s) IN
  IF contains(l, <<"o", "n", "g", "o", "i", "n", "g">>) THEN "Ongoing"
  ELSE IF contains(l, <<"c", "o", "m", "p", "l", "e", "t", "e", "d">>)
          \/ contains(l, <<"c", "o", "m", "p", "l", "e", "t", "e">>) THEN "Completed"
  ELSE "Unknown"

\* fn extract_cover(node): the node's first img (an Option), then the first
\* attribute that has a value, in the order data-src, src, data-lazy-src
extract_cover(node) ==
  IF ~IsSome(node.img) THEN None
  ELSE LET attrs == node.img[1] IN
       IF IsSome(attrs.data_src) THEN Some(attrs.data_src[1])
       ELSE IF IsSome(attrs.src) THEN Some(attrs.src[1])
       ELSE IF IsSome(attrs.data_lazy_src) THEN Some(attrs.data_lazy_src[1])
       ELSE None

(* ----------------------------- transport ------------------------------ *)

\* what net::http_get and tl::parse can do with a request: the fetch fails,
\* the parse fails, or a document comes back
Responses(docs) ==
  {[status |-> "http_error", body |-> <<>>], [status |-> "parse_error", body |-> <<>>]}
    \cup {[status |-> "ok", body |-> d] : d \in docs}

\* fn get_dom(url): both failures go through expect(), which panics; the
\* function has no path that returns Err
get_dom(r) ==
  IF r.status = "http_error" THEN [kind |-> "panic", message |-> "http get failed"]
  ELSE IF r.status = "parse_error" THEN [kind |-> "panic", message |-> "parse failed"]
  ELSE [kind |-> "Ok", dom |-> r.body]

\* let dom = get_dom(..)?; ... Ok(value): how a handler ends, given what
\* get_dom did
handler_outcome(d) ==
  IF d.kind = "Ok" THEN "ok" ELSE IF d.kind = "Err" THEN "err" ELSE "panic"

(* --------------------------- list extraction -------------------------- *)

\* if title.is_empty() || href.is_empty() { continue; }
list_item_skippedBoth(title, href) == title = <<>> /\ href = <<>>

list_item_skipped(title, href) == title = <<>> \/ href = <<>>

\* title_node.as_ref().map(text).unwrap_or_default()
item_title(item) == IF IsSome(item.title) THEN text(item.title[1]) ELSE <<>>

\* href_node.and_then(.. attributes().get("href") ..).unwrap_or_default()
item_href(item) ==
  IF IsSome(item.a) THEN unwrap_or_default(item.a[1].href) ELSE <<>>

Manga(item) ==
  [id |-> item_href(item),
   cover |-> unwrap_or_default(extract_cover(item)),
   title |-> item_title(item),
   author |-> <<>>, artist |-> <<>>, description |-> <<>>,
   url |-> item_href(item),
   categories |-> <<>>,
   status |-> "Unknown", nsfw |-> "Nsfw", viewer |-> "Scroll"]

\* the for loop over the matched items
RECURSIVE push_mangas(_, _)
push_mangas(items, mangas) ==
  IF items = <<>> THEN mangas
  ELSE LET item == Head(items) IN
       IF list_item_skipped(item_title(item), item_href(item))
       THEN push_mangas(Tail(items), mangas)
       ELSE push_mangas(Tail(items), Append(mangas, Manga(item)))

MangaPageResult(dom) ==
  [manga |-> push_mangas(query_selector(dom, LIST_ITEM), <<>>), has_more |-> TRUE]

\* if page < 1 { 1 } else { page }
clamp_page(page) == IF page < 1 THEN 1 ELSE page

\* the listing chosen by the Title filters: "Popular" if any says so
RECURSIVE listing_of(_, _)
listing_of(filters, listing) ==
  IF filters = <<>> THEN listing
  ELSE LET f == Head(filters) IN
       IF f.kind = "Title" /\ f.value = <<"P", "o", "p", "u", "l", "a", "r">>
       THEN listing_of(Tail(filters), "Popular")
       ELSE listing_of(Tail(filters), listing)

manga_list_url(filters, page) ==
  [base |-> BASE_URL, s |-> <<>>, post_type |-> "wp-manga",
   m_orderby |-> IF listing_of(filters, "Latest") = "Popular" THEN "trending" ELSE "latest",
   page |-> clamp_page(page)]

\* the query is the value of the last Title filter
RECURSIVE query_of(_, _)
query_of(filters, query) ==
  IF filters = <<>> THEN query
  ELSE LET f == Head(filters) IN
       IF f.kind = "Title" THEN query_of(Tail(filters), f.value)
       ELSE query_of(Tail(filters), query)

\* net::urlencode on the characters the queries use
RECURSIVE urlencode(_)
urlencode(s) ==
  IF s = <<>> THEN <<>>
  ELSE (IF Head(s) = " " THEN <<"%", "2", "0">> ELSE <<Head(s)>>) \o urlencode(Tail(s))

search_url(filters, page) ==
  [base |-> BASE_URL, s |-> urlencode(query_of(filters, <<>>)), post_type |-> "wp-manga",
   m_orderby |-> "", page |-> clamp_page(page)]

(* -------------------------- detail extraction ------------------------- *)

\* genres: text of every match, empty ones dropped, in encounter order
RECURSIVE push_genres(_, _)
push_genres(nodes, genres) ==
  IF nodes = <<>> THEN genres
  ELSE LET t == text(Head(nodes)) IN
       IF t # <<>> THEN push_genres(Tail(nodes), Append(genres, t))
       ELSE push_genres(Tail(nodes), genres)

\* info.and_then(first STATUS match).map(map_status(text)).unwrap_or(Unknown)
detail_status(info) ==
  IF IsSome(info) /\ IsSome(info[1].status) THEN map_status(text(info[1].status[1]))
  ELSE "Unknown"

MangaDetails(id, dom) ==
  [id |-> id,
   cover |-> unwrap_or_default(dom.og_image),
   title |-> IF IsSome(dom.h1) THEN text(dom.h1[1]) ELSE <<"U", "n", "k", "n", "o", "w", "n">>,
   author |-> <<>>, artist |-> <<>>,
   description |-> IF IsSome(dom.info) /\ IsSome(dom.info[1].summary)
                   THEN text(dom.info[1].summary[1]) ELSE <<>>,
   url |-> id,
   categories |-> IF IsSome(dom.info) THEN push_genres(dom.info[1].genres, <<>>) ELSE <<>>,
   status |-> detail_status(dom.info),
   nsfw |-> "Nsfw", viewer |-> "Scroll"]

(* -------------------------- chapter extraction ------------------------ *)

Chapter(a) ==
  [id |-> a.href[1], title |-> text(a.inner_text), volume |-> <<>>, chapter |-> <<>>,
   url |-> a.href[1], date_updated |-> None, scanlator |-> <<>>, lang |-> "en"]

\* the for loop over the matched chapter nodes
push_chaptersNewestLast(nodes, chapters) ==
  LET kept == SelectSeq(nodes, LAMBDA a : IsSome(a.href)) IN
  chapters \o [i \in 1..Len(kept) |-> Chapter(kept[Len(kept) + 1 - i])]

RECURSIVE push_chapters(_, _)
push_chapters(nodes, chapters) ==
  IF nodes = <<>> THEN chapters
  ELSE LET a == Head(nodes) IN
       IF IsSome(a.href) THEN push_chapters(Tail(nodes), Append(chapters, Chapter(a)))
       ELSE push_chapters(Tail(nodes), chapters)

(* --------------------------- page extraction -------------------------- *)

\* attrs.get("data-src") .. .or_else(|| attrs.get("src") ..)
page_urlSrcFirst(img) ==
  IF IsSome(img.src) THEN img.src ELSE IF IsSome(img.data_src) THEN img.data_src ELSE None

page_url(img) ==
  IF IsSome(img.data_src) THEN img.data_src ELSE IF IsSome(img.src) THEN img.src ELSE None

\* the for loop over the matched image nodes, with its running index
RECURSIVE push_pages(_, _, _)
push_pages(imgs, pages, index) ==
  IF imgs = <<>> THEN pages
  ELSE LET u == page_url(Head(imgs)) IN
       IF IsSome(u)
       THEN push_pages(Tail(imgs),
                       Append(pages, [index |-> index, url |-> u[1], base64 |-> <<>>, text |-> <<>>]),
                       index + 1)
       ELSE push_pages(Tail(imgs), pages, index)

(* ------------------------------ deep links ---------------------------- *)

is_chapterNoDash(u) ==
  contains(u, <<"/", "c", "h", "a", "p", "t", "e", "r", "/">>) \/ contains(u, <<"/", "c", "h", "/">>)

is_chapter(u) ==
  \/ contains(u, <<"/", "c", "h", "a", "p", "t", "e", "r", "/">>)
  \/ contains(u, <<"/", "c", "h", "/">>)
  \/ contains(u, <<"/", "c", "h", "a", "p", "t", "e", "r", "-">>)

\* fn handle_url(url)
handle_url(u) ==
  IF is_chapter(u) THEN [type |-> "chapter", id |-> u, url |-> u]
  ELSE [type |-> "manga", id |-> u, url |-> u]

(* ------------------------------- inputs ------------------------------- *)

Docs(nodes) == Tuples(nodes, MaxNodes)

Strings(pieces) == {Cat(ps) : ps \in Tuples(pieces, MaxPieces)}

NoImgAttrs == [data_src |-> None, src |-> None, data_lazy_src |-> None]

\* listing items: kept ones with a relative and with an absolute href under
\* two different alternatives, and one for each way of being skipped
ListItems ==
  { [alt |-> 1, title |-> Some(<<" ", "S", " ">>), a |-> Some([href |-> Some(<<"/", "a">>)]),
     img |-> Some([data_src |-> None, src |-> Some(<<"s">>), data_lazy_src |-> Some(<<"l">>)])],
    [alt |-> 2, title |-> Some(<<"T">>), a |-> Some([href |-> Some(BASE_URL \o <<"/", "b">>)]),
     img |-> Some([data_src |-> Some(<<"d">>), src |-> Some(<<"s">>), data_lazy_src |-> None])],
    [alt |-> 1, title |-> Some(<<" ">>), a |-> Some([href |-> Some(<<"/", "c">>)]), img |-> None],
    [alt |-> 3, title |-> Some(<<"U">>), a |-> Some([href |-> None]), img |-> None],
    [alt |-> 1, title |-> None, a |-> Some([href |-> Some(<<"/", "d">>)]), img |-> Some(NoImgAttrs)],
    [alt |-> 0, title |-> Some(<<"V">>), a |-> Some([href |-> Some(<<"/", "e">>)]), img |-> None],
    [alt |-> 2, title |-> Some(<<"W">>), a |-> None, img |-> None],
    [alt |-> 3, title |-> Some(<<"X">>), a |-> Some([href |-> Some(<<>>)]), img |-> None] }

FilterLists ==
  { <<>>,
    <<[kind |-> "Title", value |-> <<"P", "o", "p", "u", "l", "a", "r">>]>>,
    <<[kind |-> "Title", value |-> <<"a", " ", "b">>], [kind |-> "Genre", value |-> <<>>]>> }

PageNumbers == {0, 2}

WorkIds == {BASE_URL \o <<"/", "a">>, <<"/", "a">>}

DetailInfos ==
  {None} \cup
  { Some([summary |-> sm, genres |-> g, status |-> st]) :
      sm \in {None, Some(<<" ", "D", " ">>)},
      g \in {<<>>, << <<"G">> >>, << <<" ">>, <<"H">>, <<"G">> >>},
      st \in {None, Some(<<" ", "O", "N", "G", "O", "I", "N", "G", " ", "n", "o", "w">>),
               Some(<<"C", "o", "m", "p", "l", "e", "t", "e", "d">>),
               Some(<<"h", "i", "a", "t", "u", "s">>)} }

DetailDocs ==
  { [h1 |-> h, info |-> i, og_image |-> o] :
      h \in {None, Some(<<" ", "T", " ">>)}, i \in DetailInfos, o \in {None, Some(<<"o">>)} }

ChapterNodes ==
  { [alt |-> 1, href |-> Some(BASE_URL \o <<"/", "3">>), inner_text |-> <<" ", "3", " ">>],
    [alt |-> 2, href |-> Some(<<"/", "2">>), inner_text |-> <<"2">>],
    [alt |-> 1, href |-> None, inner_text |-> <<"x">>],
    [alt |-> 0, href |-> Some(<<"/", "0">>), inner_text |-> <<"0">>],
    [alt |-> 4, href |-> Some(<<"/", "1">>), inner_text |-> <<"1">>],
    [alt |-> 3, href |-> Some(<<>>), inner_text |-> <<>>] }

ImageNodes ==
  { [alt |-> 1, data_src |-> Some(<<"d", "1">>), src |-> Some(<<"s", "1">>)],
    [alt |-> 1, data_src |-> None, src |-> Some(<<"s", "2">>)],
    [alt |-> 2, data_src |-> None, src |-> None],
    [alt |-> 0, data_src |-> None, src |-> Some(<<"s", "0">>)],
    [alt |-> 3, data_src |-> Some(<<"d", "3">>), src |-> None],
    [alt |-> 2, data_src |-> Some(<<>>), src |-> Some(<<"s", "4">>)] }

AttrValues(v) == {None, Some(<<>>), Some(v)}

CoverNodes ==
  {[img |-> None]} \cup
  { [img |-> Some([data_src |-> d, src |-> s, data_lazy_src |-> l])] :
      d \in AttrValues(<<"d">>), s \in AttrValues(<<"s">>), l \in AttrValues(<<"l">>) }

HrefPieces ==
  { <<"h", "t", "t", "p">>, BASE_URL, <<"f", "t", "p", ":", "/", "/", "c", "d", "n">>,
    <<"/", "a">>, <<"s">>, <<"/", "/", "c", "d", "n">> }

StatusPieces ==
  { <<"C", "o", "m", "p", "l", "e", "t", "e", "d">>, <<" ", " ", "O", "N", "G", "O", "I", "N", "G">>,
    <<" ", "n", "o", "w">>, <<"h", "i", "a", "t", "u", "s">>,
    <<"c", "o", "m", "p", "l", "e", "t", "e">>, <<"O", "n", "g", "o", "i", "n", "g">>,
    <<"o", "n">> }

SiteMangaFoo ==
  <<"h", "t", "t", "p", "s", ":", "/", "/", "s", "i", "t", "e",
    "/", "m", "a", "n", "g", "a", "/", "f", "o", "o">>

UrlPieces ==
  { SiteMangaFoo,
    <<"/", "c", "h", "a", "p", "t", "e", "r", "-", "3">>,
    <<"/", "c", "h", "a", "p", "t", "e", "r", "/">>,
    <<"/", "c", "h", "/">>, <<"/", "c", "h">>, <<"1">>,
    <<"?", "q", "=", "/", "c", "h", "/">> }

(* ------------------------------- actions ------------------------------ *)

Init ==
  /\ op = "ready"
  /\ arg = <<>>
  /\ url = <<>>
  /\ response = "none"
  /\ doc = <<>>
  /\ outcome = "none"
  /\ result = <<>>

\* a handler that fetches: the request, what came back, and how it ended.
\* The host calls one exported function at a time.
Fetched(name, a, u, r, value) ==
  LET d == get_dom(r) IN
  /\ op = "ready"
  /\ op' = name
  /\ arg' = a
  /\ url' = u
  /\ response' = r.status
  /\ doc' = r.body
  /\ outcome' = handler_outcome(d)
  /\ result' = IF d.kind = "Ok" THEN value ELSE <<>>

get_manga_list ==
  \E filters \in FilterLists, page \in PageNumbers, r \in Responses(Docs(ListItems)) :
    Fetched("get_manga_list", [filters |-> filters, page |-> page],
            manga_list_url(filters, page), r, MangaPageResult(r.body))

get_search_results ==
  \E filters \in FilterLists, page \in PageNumbers, r \in Responses(Docs(ListItems)) :
    Fetched("get_search_results", [filters |-> filters, page |-> page],
            search_url(filters, page), r, MangaPageResult(r.body))

get_manga_details ==
  \E id \in WorkIds, r \in Responses(DetailDocs) :
    Fetched("get_manga_details", id, id, r, MangaDetails(id, r.body))

get_chapter_list ==
  \E id \in WorkIds, r \in Responses(Docs(ChapterNodes)) :
    Fetched("get_chapter_list", id, id, r,
            push_chapters(query_selector(r.body, CHAPTER_LIST), <<>>))

get_page_list ==
  \E id \in WorkIds, r \in Responses(Docs(ImageNodes)) :
    Fetched("get_page_list", id, id, r,
            push_pages(query_selector(r.body, PAGE_IMAGE), <<>>, 0))

\* a call that fetches nothing
Called(name, a, value) ==
  /\ op = "ready"
  /\ op' = name
  /\ arg' = a
  /\ url' = <<>>
  /\ response' = "none"
  /\ doc' = <<>>
  /\ outcome' = "ok"
  /\ result' = value

handle_url_call == \E u \in Strings(UrlPieces) : Called("handle_url", u, handle_url(u))

abs_call == \E href \in Strings(HrefPieces) : Called("abs", href, abs(href))

map_status_call == \E s \in Strings(StatusPieces) : Called("map_status", s, map_status(s))

extract_cover_call == \E node \in CoverNodes : Called("extract_cover", node, extract_cover(node))

\* the call returns its Result to the host, which may then call again; a
\* call that panicked never returns
host_return ==
  /\ op # "ready"
  /\ outcome # "panic"
  /\ op' = "ready"
  /\ arg' = <<>>
  /\ url' = <<>>
  /\ response' = "none"
  /\ doc' = <<>>
  /\ outcome' = "none"
  /\ result' = <<>>

Next ==
  \/ get_manga_list
  \/ get_search_results
  \/ get_manga_details
  \/ get_chapter_list
  \/ get_page_list
  \/ handle_url_call
  \/ abs_call
  \/ map_status_call
  \/ extract_cover_call
  \/ host_return

Spec == Init /\ [][Next]_vars

(* ------------------------------ properties ---------------------------- *)

Finished(name) == op = name /\ outcome = "ok"

IsLetter(c) == \E i \in 1..26 : c = LowerLetters[i] \/ c = UpperLetters[i]

\* a URL scheme: letters up to a colon
HasScheme(u) ==
  \E i \in 2..Len(u) : u[i] = ":" /\ \A j \in 1..(i - 1) : IsLetter(u[j])

\* C1: every work returned by get_manga_list and get_search_results and every
\* chapter returned by get_chapter_list has an identifier in absolute-URL form.
C1_IdentifiersAbsolute ==
  /\ (Finished("get_manga_list") \/ Finished("get_search_results"))
       => \A i \in 1..Len(result.manga) : HasScheme(result.manga[i].id)
  /\ Finished("get_chapter_list")
       => \A i \in 1..Len(result) : HasScheme(result[i].id)

\* an item block that makes a usable record: a title with something left after
\* trimming and a link whose href has a non-empty value
HasTitleAndHref(item) ==
  /\ IsSome(item.title) /\ trim(item.title[1]) # <<>>
  /\ IsSome(item.a) /\ IsSome(item.a[1].href) /\ item.a[1].href[1] # <<>>

\* C2: the works of a listing or search are exactly the matched item blocks
\* with a non-empty trimmed title and a non-empty href, in document order; no
\* work has an empty title or identifier.
C2_ListKeepsUsableItems ==
  (Finished("get_manga_list") \/ Finished("get_search_results")) =>
    LET kept == SelectSeq(query_selector(doc, LIST_ITEM), HasTitleAndHref) IN
    /\ Len(result.manga) = Len(kept)
    /\ \A i \in 1..Len(kept) :
         /\ result.manga[i].id = kept[i].a[1].href[1]
         /\ result.manga[i].url = kept[i].a[1].href[1]
         /\ result.manga[i].title = trim(kept[i].title[1])
         /\ result.manga[i].id # <<>>
         /\ result.manga[i].title # <<>>

\* three matched item blocks, one of them with a link that has no href: two works
C2_Witness ==
  /\ Finished("get_manga_list")
  /\ Len(query_selector(doc, LIST_ITEM)) = 3
  /\ \E i \in 1..3 : IsSome(doc[i].a) /\ ~IsSome(doc[i].a[1].href)
  /\ Len(result.manga) = 2

HasSource(img) == IsSome(img.data_src) \/ IsSome(img.src)

\* C3: the pages are the matched image nodes that have data-src or src, in
\* document order, numbered 0, 1, .., k-1, each with its data-src value if it
\* has one and its src value otherwise; no pages is a successful result.
C3_PagesContiguous ==
  (op = "get_page_list" /\ response = "ok") =>
    LET kept == SelectSeq(query_selector(doc, PAGE_IMAGE), HasSource) IN
    /\ outcome = "ok"
    /\ Len(result) = Len(kept)
    /\ \A i \in 1..Len(kept) :
         /\ result[i].index = i - 1
         /\ result[i].url = IF IsSome(kept[i].data_src) THEN kept[i].data_src[1]
                             ELSE kept[i].src[1]

\* a node without a source between two nodes with one, the first with both
\* attributes: the page after the gap has index 1
C3_Witness ==
  /\ Finished("get_page_list")
  /\ Len(doc) = 3
  /\ doc[1].alt \in PAGE_IMAGE /\ IsSome(doc[1].data_src) /\ IsSome(doc[1].src)
  /\ doc[2].alt \in PAGE_IMAGE /\ ~HasSource(doc[2])
  /\ doc[3].alt \in PAGE_IMAGE /\ ~IsSome(doc[3].data_src) /\ IsSome(doc[3].src)
  /\ Len(result) = 2
  /\ result[2].index = 1

HasHref(a) == IsSome(a.href)

\* C4: the chapters are the matched nodes that have an href, in document order,
\* each with id = url = its href and lang "en".
C4_ChaptersInDocumentOrder ==
  Finished("get_chapter_list") =>
    LET kept == SelectSeq(query_selector(doc, CHAPTER_LIST), HasHref) IN
    /\ Len(result) = Len(kept)
    /\ \A i \in 1..Len(kept) :
         /\ result[i].id = kept[i].href[1]
         /\ result[i].url = kept[i].href[1]
         /\ result[i].lang = "en"

\* two chapters with different hrefs around a node without one
C4_Witness ==
  /\ Finished("get_chapter_list")
  /\ Len(doc) = 3
  /\ \A i \in 1..3 : doc[i].alt \in CHAPTER_LIST
  /\ HasHref(doc[1]) /\ ~HasHref(doc[2]) /\ HasHref(doc[3])
  /\ doc[1].href # doc[3].href
  /\ Len(result) = 2
  /\ result[1].id = doc[1].href[1]
  /\ result[2].id = doc[3].href[1]

\* C5: when the fetch or the parse fails, the handler returns an error to its
\* caller; it never panics instead.
C5_FailurePropagates ==
  response \in {"http_error", "parse_error"} => outcome = "err"

ChapterMarkers ==
  { <<"/", "c", "h", "a", "p", "t", "e", "r", "/">>, <<"/", "c", "h", "/">>,
    <<"/", "c", "h", "a", "p", "t", "e", "r", "-">> }

HasMarker(s) ==
  \E m \in ChapterMarkers : \E i \in 1..Len(s) :
    i + Len(m) - 1 <= Len(s) /\ \A k \in 1..Len(m) : s[i + k - 1] = m[k]

\* the part of s before its first "?" or "#"
BeforeQuery(s) ==
  IF \E i \in 1..Len(s) : s[i] \in {"?", "#"}
  THEN SubSeq(s, 1, (CHOOSE i \in 1..Len(s) :
                       /\ s[i] \in {"?", "#"}
                       /\ \A j \in 1..(i - 1) : s[j] \notin {"?", "#"}) - 1)
  ELSE s

\* the part of s from the first "/" on, or nothing
FromSlash(s) ==
  IF \E i \in 1..Len(s) : s[i] = "/"
  THEN SubSeq(s, CHOOSE i \in 1..Len(s) : s[i] = "/" /\ \A j \in 1..(i - 1) : s[j] # "/", Len(s))
  ELSE <<>>

\* the path of a URL: what follows scheme://authority, up to the query
PathOf(u) ==
  LET s == BeforeQuery(u) IN
  IF \E i \in 1..(Len(s) - 2) : SubSeq(s, i, i + 2) = <<":", "/", "/">>
  THEN LET i == CHOOSE i \in 1..(Len(s) - 2) :
                  /\ SubSeq(s, i, i + 2) = <<":", "/", "/">>
                  /\ \A j \in 1..(i - 1) : SubSeq(s, j, j + 2) # <<":", "/", "/">>
       IN FromSlash(SubSeq(s, i + 3, Len(s)))
  ELSE s

\* C6 as stated: handle_url returns id = url = the input, with type "chapter"
\* when the path of the URL contains a chapter marker and "work" otherwise.
C6_TypeWorkOrChapterByPath ==
  op = "handle_url" =>
    /\ result.id = arg
    /\ result.url = arg
    /\ result.type = IF HasMarker(PathOf(arg)) THEN "chapter" ELSE "work"

\* C6 as amended: handle_url returns id = url = the input, with type "chapter"
\* when the URL string contains a chapter marker anywhere (path, query or
\* elsewhere) and "manga" otherwise; https://site/manga/foo is a manga and
\* https://site/manga/foo/chapter-3 a chapter.
C6_TypeMangaOrChapter ==
  op = "handle_url" =>
    /\ outcome = "ok"
    /\ result.id = arg
    /\ result.url = arg
    /\ result.type = IF HasMarker(arg) THEN "chapter" ELSE "manga"
    /\ arg = SiteMangaFoo => result.type = "manga"
    /\ arg = SiteMangaFoo \o <<"/", "c", "h", "a", "p", "t", "e", "r", "-", "3">>
         => result.type = "chapter"

C6_Witness ==
  /\ op = "handle_url"
  /\ arg = SiteMangaFoo \o <<"/", "c", "h", "a", "p", "t", "e", "r", "-", "3">>
  /\ result.type = "chapter"

\* C7: abs is idempotent, leaves an href that has a scheme (any scheme)
\* unchanged, and puts the site origin before any other href.
C7_AbsIdempotentSchemeAware ==
  op = "abs" =>
    /\ abs(result) = result
    /\ HasScheme(arg) => result = arg
    /\ ~HasScheme(arg) => result = BASE_URL \o arg

ContainsIgnoringCase(s, w) ==
  \E i \in 1..Len(s) :
    i + Len(w) - 1 <= Len(s) /\ \A k \in 1..Len(w) : LowerChar(s[i + k - 1]) = w[k]

ExpectedStatus(s) ==
  IF ContainsIgnoringCase(s, <<"o", "n", "g", "o", "i", "n", "g">>) THEN "Ongoing"
  ELSE IF ContainsIgnoringCase(s, <<"c", "o", "m", "p", "l", "e", "t", "e">>) THEN "Completed"
  ELSE "Unknown"

\* C8: map_status returns Ongoing if the input contains "ongoing" in any case,
\* otherwise Completed if it contains "complete", otherwise Unknown; "Completed",
\* "  ONGOING now" and "hiatus" give Completed, Ongoing and Unknown; and details
\* of a document without a status node (or without the metadata container)
\* succeed with status Unknown.
C8_StatusClassification ==
  /\ op = "map_status" =>
       /\ outcome = "ok"
       /\ result = ExpectedStatus(arg)
       /\ arg = <<"C", "o", "m", "p", "l", "e", "t", "e", "d">> => result = "Completed"
       /\ arg = <<" ", " ", "O", "N", "G", "O", "I", "N", "G", " ", "n", "o", "w">>
            => result = "Ongoing"
       /\ arg = <<"h", "i", "a", "t", "u", "s">> => result = "Unknown"
  /\ (op = "get_manga_details" /\ response = "ok") =>
       /\ outcome = "ok"
       /\ (~IsSome(doc.info) \/ ~IsSome(doc.info[1].status)) => result.status = "Unknown"
       /\ (IsSome(doc.info) /\ IsSome(doc.info[1].status))
            => result.status = ExpectedStatus(doc.info[1].status[1])

\* an input with "complete" before "ongoing" is Ongoing
C8_Witness ==
  /\ op = "map_status"
  /\ arg = <<"C", "o", "m", "p", "l", "e", "t", "e", "d", "O", "n", "g", "o", "i", "n", "g">>
  /\ result = "Ongoing"

\* the nodes of the earliest alternative of a selector list that matches any
FirstMatch(nodes, target) ==
  IF \E k \in target : \E i \in 1..Len(nodes) : nodes[i].alt = k
  THEN LET first == CHOOSE k \in target :
                      /\ \E i \in 1..Len(nodes) : nodes[i].alt = k
                      /\ \A j \in target : (\E i \in 1..Len(nodes) : nodes[i].alt = j) => k <= j
       IN SelectSeq(nodes, LAMBDA n : n.alt = first)
  ELSE <<>>

\* C9: the nodes an extractor processes are those of the earliest alternative
\* of its selector list that matches at least one node, never those of a later
\* alternative as well; no match gives an empty result.
C9_FirstAlternativeWins ==
  /\ (Finished("get_manga_list") \/ Finished("get_search_results"))
       => result.manga = push_mangas(FirstMatch(doc, LIST_ITEM), <<>>)
  /\ Finished("get_chapter_list")
       => result = push_chapters(FirstMatch(doc, CHAPTER_LIST), <<>>)
  /\ Finished("get_page_list")
       => result = push_pages(FirstMatch(doc, PAGE_IMAGE), <<>>, 0)

FirstNonEmpty(options) ==
  LET present == SelectSeq(options, LAMBDA o : IsSome(o) /\ o[1] # <<>>) IN
  IF present = <<>> THEN None ELSE present[1]

\* C10: extract_cover returns the first of data-src, data-lazy-src, src of the
\* item's first image that is present with a non-empty value, and nothing when
\* none is.
C10_CoverPriority ==
  op = "extract_cover" =>
    result = IF IsSome(arg.img)
             THEN FirstNonEmpty(<<arg.img[1].data_src, arg.img[1].data_lazy_src, arg.img[1].src>>)
             ELSE None

====
